---- MODULE Spec2Model ----
(***************************************************************************)
(* BOM -> DD1750 converter: the two conversion pipelines of the repository *)
(*   app.py          index -> parse_bom_pdf -> build_overlay ->            *)
(*                   merge_overlay_on_template -> send_file                *)
(*   dd1750_core.py  generate_dd1750_from_pdf: extract_pdf_text_rows ->    *)
(*                   parse_items_from_rows -> drawing loop -> merge_template*)
(* A Python str is a sequence of one-character strings; None is the value  *)
(* None below (for str | None) or the empty tuple (for int | None, whose   *)
(* int is the one-element tuple).                                          *)
(***************************************************************************)
EXTENDS Integers, Sequences, FiniteSets, TLC

VARIABLES
    prog,        \* "app": a POST handled by index; "core": generate_dd1750_from_pdf
    pc,          \* where the pipeline is
    text_rows,   \* core: rows, the stripped non-empty lines extracted so far
    pos,         \* core: the row the parser reads next
    st,          \* core: current_desc, current_nsn and items of the parser
    start_page,  \* app: the start_page of the request
    pno,         \* app: pages of the BOM passed so far
    page,        \* app: the page read last
    item_rows,   \* app: rows of parse_bom_pdf, before the deduplication
    items,       \* the item list handed to the renderer
    idx,         \* items drawn or skipped so far
    y,           \* the y of the next row
    box_no,      \* core: the next box number
    cur,         \* the canvas page being drawn: its text draws, in order
    dirty,       \* the canvas page being drawn holds code
    overlay,     \* the overlay pages shown so far
    add_clones,  \* PdfWriter.add_page stores a clone of the page (or the page itself)
    objs,        \* page objects: objs[1] is the template's first page
    out,         \* the writer's pages, as indexes into objs
    mi,          \* overlay pages merged so far
    output,      \* the empty tuple, or <<the pages of the PDF written or sent>>
    error        \* the error the caller gets, "" for none

\* ------------------------------------------------------------------------
\* Python str primitives
\* ------------------------------------------------------------------------

None == <<"None">>

DigitChars == <<"0", "1", "2", "3", "4", "5", "6", "7", "8", "9">>

LowerChars == <<"a", "b", "c", "d", "e", "f", "g", "h", "i", "j", "k", "l", "m",
                "n", "o", "p", "q", "r", "s", "t", "u", "v", "w", "x", "y", "z">>

UpperChars == <<"A", "B", "C", "D", "E", "F", "G", "H", "I", "J", "K", "L", "M",
                "N", "O", "P", "Q", "R", "S", "T", "U", "V", "W", "X", "Y", "Z">>

SetMin(S) == CHOOSE m \in S : \A k \in S : m <= k

SetMax(S) == CHOOSE m \in S : \A k \in S : m >= k

\* ch.isdigit()
isdigit_c(c) == \E i \in 1..10 : DigitChars[i] = c

digit_val(c) == (CHOOSE i \in 1..10 : DigitChars[i] = c) - 1

\* [A-Z]
isupper_c(c) == \E i \in 1..26 : UpperChars[i] = c

\* \w of the re module, on the characters the inputs use
isword_c(c) ==
    \/ isdigit_c(c)
    \/ isupper_c(c)
    \/ \E i \in 1..26 : LowerChars[i] = c
    \/ c = "_"

\* \s and str.isspace()
isspace_c(c) == c \in {" ", "\t"}

upper_c(c) ==
    IF \E i \in 1..26 : LowerChars[i] = c
    THEN UpperChars[CHOOSE i \in 1..26 : LowerChars[i] = c]
    ELSE c

\* str.upper()
upper(s) == [i \in 1..Len(s) |-> upper_c(s[i])]

\* str.isdigit(): non-empty, digits only
isdigit(s) == Len(s) > 0 /\ \A i \in 1..Len(s) : isdigit_c(s[i])

\* str.strip()
strip(s) ==
    LET keep == {i \in 1..Len(s) : ~isspace_c(s[i])}
    IN  IF keep = {} THEN <<>> ELSE SubSeq(s, SetMin(keep), SetMax(keep))

\* str.strip(chars)
strip_chars(s, chars) ==
    LET keep == {i \in 1..Len(s) : s[i] \notin chars}
    IN  IF keep = {} THEN <<>> ELSE SubSeq(s, SetMin(keep), SetMax(keep))

\* sub in s
contains(sub, s) ==
    \E i \in 1..(Len(s) - Len(sub) + 1) : SubSeq(s, i, i + Len(sub) - 1) = sub

\* s.startswith(pre)
startswith(s, pre) == Len(s) >= Len(pre) /\ SubSeq(s, 1, Len(pre)) = pre

\* str.split(): the maximal runs of non-whitespace characters
RECURSIVE split(_)
split(s) ==
    LET nonsp == {i \in 1..Len(s) : ~isspace_c(s[i])}
    IN  IF nonsp = {} THEN <<>>
        ELSE LET b   == SetMin(nonsp)
                 sp  == {i \in b..Len(s) : isspace_c(s[i])}
                 e   == IF sp = {} THEN Len(s) ELSE SetMin(sp) - 1
             IN  <<SubSeq(s, b, e)>> \o split(SubSeq(s, e + 1, Len(s)))

\* " ".join(tokens)
RECURSIVE join_space(_)
join_space(tokens) ==
    IF tokens = <<>> THEN <<>>
    ELSE IF Len(tokens) = 1 THEN tokens[1]
    ELSE tokens[1] \o <<" ">> \o join_space(Tail(tokens))

\* s.replace(old, ""): every non-overlapping occurrence, left to right
RECURSIVE remove_all(_, _)
remove_all(s, old) ==
    IF old = <<>> \/ ~contains(old, s) THEN s
    ELSE LET i == SetMin({k \in 1..(Len(s) - Len(old) + 1) :
                            SubSeq(s, k, k + Len(old) - 1) = old})
         IN  SubSeq(s, 1, i - 1) \o remove_all(SubSeq(s, i + Len(old), Len(s)), old)

\* re.sub(r"\s+", " ", s)
RECURSIVE collapse_ws(_)
collapse_ws(s) ==
    LET sp == {i \in 1..Len(s) : isspace_c(s[i])}
    IN  IF sp = {} THEN s
        ELSE LET b     == SetMin(sp)
                 nonsp == {i \in b..Len(s) : ~isspace_c(s[i])}
             IN  IF nonsp = {} THEN SubSeq(s, 1, b - 1) \o <<" ">>
                 ELSE SubSeq(s, 1, b - 1) \o <<" ">>
                      \o collapse_ws(SubSeq(s, SetMin(nonsp), Len(s)))

\* Python ints are unbounded; the model's are 32 bits wide.  A digit string
\* of more than IntDigits significant digits denotes IntCap: the code only
\* compares a parsed integer with 0 and with 500.
IntDigits == 9

IntCap == 1000000000

RECURSIVE digits_value(_)
digits_value(s) ==
    IF s = <<>> THEN 0
    ELSE digits_value(SubSeq(s, 1, Len(s) - 1)) * 10 + digit_val(s[Len(s)])

\* int(s) for a string of digits
int_of_digits(s) ==
    LET sig == {i \in 1..Len(s) : s[i] # "0"}
        t   == IF sig = {} THEN <<>> ELSE SubSeq(s, SetMin(sig), Len(s))
    IN  IF Len(t) > IntDigits THEN IntCap ELSE digits_value(t)

\* ------------------------------------------------------------------------
\* dd1750_core.py: text extraction and the line parser
\* ------------------------------------------------------------------------

\* "".join(ch for ch in s if ch.isdigit())
_digits_only(s) == SelectSeq(s, isdigit_c)

NoiseTokens ==
    { <<"C", "O", "M", "P", "O", "N", "E", "N", "T", " ", "L", "I", "S", "T", "I", "N", "G">>,
      <<"H", "A", "N", "D", " ", "R", "E", "C", "E", "I", "P", "T">>,
      <<"L", "V">>,
      <<"D", "E", "S", "C", "R", "I", "P", "T", "I", "O", "N">>,
      <<"W", "T", "Y">>,
      <<"A", "R", "C">>,
      <<"C", "I", "I", "C">>,
      <<"U", "I">>,
      <<"S", "C", "M", "C">>,
      <<"A", "U", "T", "H", " ", "Q", "T", "Y">>,
      <<"O", "H", " ", "Q", "T", "Y">> }

\* the header/noise test of the line loop
is_noise(line) == \E k \in NoiseTokens : contains(k, upper(line))

QTY_MAX == 500

\* the quantity of a line: its last token if it is an integer in 0..500
line_qty(line) ==
    LET tokens == split(line)
    IN  IF tokens # <<>> /\ isdigit(tokens[Len(tokens)])
        THEN LET q == int_of_digits(tokens[Len(tokens)])
             IN  IF 0 <= q /\ q <= QTY_MAX THEN <<q>> ELSE <<>>
        ELSE <<>>

\* the text after the colon of an "NSN" line, its other characters kept
nsn_digits_kept(line) ==
    LET colons == {i \in 1..Len(line) : line[i] = ":"}
    IN  IF colons # {}
        THEN strip(SubSeq(line, SetMax(colons) + 1, Len(line)))
        ELSE strip(remove_all(line, <<"N", "S", "N">>))

\* the digits of an "NSN" line
nsn_digits(line) ==
    LET colons == {i \in 1..Len(line) : line[i] = ":"}
        maybe  == IF colons # {}
                  THEN strip(SubSeq(line, SetMax(colons) + 1, Len(line)))
                  ELSE strip(remove_all(line, <<"N", "S", "N">>))
    IN  _digits_only(maybe)

\* flush(qty), on the parser state ps = [current_desc, current_nsn, items]
flush(ps, qty) ==
    IF ps.current_desc = None \/ ps.current_desc = <<>> THEN ps
    ELSE IF qty = <<>> \/ qty[1] <= 0
         THEN [ps EXCEPT !.current_desc = None, !.current_nsn = None]
         ELSE [current_desc |-> None,
               current_nsn  |-> None,
               items |-> Append(ps.items,
                           [description |-> strip(ps.current_desc),
                            nsn |-> IF ps.current_nsn = None THEN <<>>
                                    ELSE strip(ps.current_nsn),
                            qty |-> qty[1]])]

\* the description a line gives: "BII-"/"COEI-" prefixes dropped
clean_desc(line) ==
    LET cleaned == strip(line)
    IN  IF \/ startswith(upper(cleaned), <<"B", "I", "I", "-">>)
           \/ startswith(upper(cleaned), <<"C", "O", "E", "I", "-">>)
        THEN LET rest == join_space(Tail(split(cleaned)))
             IN  IF rest = <<>> THEN line ELSE rest
        ELSE cleaned

\* one iteration of "for line in rows" of parse_items_from_rows
parse_line(ps, line) ==
    IF is_noise(line) THEN ps
    ELSE IF startswith(upper(line), <<"N", "S", "N">>)
    THEN LET d == nsn_digits(line)
         IN  IF d # <<>> THEN [ps EXCEPT !.current_nsn = d] ELSE ps
    ELSE LET qty == line_qty(line)
         IN  IF qty # <<>> /\ ps.current_desc # None /\ ps.current_desc # <<>>
             THEN flush(ps, qty)
             ELSE IF ps.current_desc = None /\ Len(line) >= 4
                  THEN [ps EXCEPT !.current_desc = clean_desc(line)]
                  ELSE ps

ParserInit == [current_desc |-> None, current_nsn |-> None, items |-> <<>>]

RECURSIVE parse_from(_, _)
parse_from(ps, rows) ==
    IF rows = <<>> THEN ps ELSE parse_from(parse_line(ps, Head(rows)), Tail(rows))

\* parse_items_from_rows(rows)
parse_items_from_rows(rows) == parse_from(ParserInit, rows).items

\* ------------------------------------------------------------------------
\* app.py: parse_bom_pdf
\* A page is [fails, tables, text]: extract_tables() raises (fails) or
\* returns tables, each a sequence of rows of cells (a str or None);
\* text is extract_text() as its sequence of lines.
\* ------------------------------------------------------------------------

\* re.sub(r"[^0-9]", "", token or "")
_clean_nsn(token) == IF token = None THEN <<>> ELSE SelectSeq(token, isdigit_c)

isintchar_c(c) == isdigit_c(c) \/ c = "-"

\* _as_int(token): the empty tuple for None, <<n>> for the int n
_as_int(token) ==
    LET t1 == IF token = None THEN <<>> ELSE strip(token)
        t2 == SelectSeq(t1, isintchar_c)
    IN  IF t1 = <<>> \/ t2 = <<>> THEN <<>>
        ELSE IF isdigit(t2) THEN <<int_of_digits(t2)>>
        ELSE IF t2[1] = "-" /\ isdigit(Tail(t2)) THEN <<0 - int_of_digits(Tail(t2))>>
        ELSE <<>>

\* str(c or "")
cell_str(c) == IF c = None THEN <<>> ELSE c

\* idx_of(name_opts) over header: the empty tuple for None, <<i>> for column i
RECURSIVE idx_of(_, _)
idx_of(header, name_opts) ==
    IF name_opts = <<>> THEN <<>>
    ELSE LET hit == {i \in 1..Len(header) : contains(Head(name_opts), header[i])}
         IN  IF hit # {} THEN <<SetMin(hit)>> ELSE idx_of(header, Tail(name_opts))

DescOpts == << <<"D", "E", "S", "C", "R", "I", "P", "T", "I", "O", "N">> >>

OhOpts == << <<"O", "H", " ", "Q", "T", "Y">>,
             <<"O", "H", "Q", "T", "Y">>,
             <<"O", "N", " ", "H", "A", "N", "D">>,
             <<"O", "N", "-", "H", "A", "N", "D">>,
             <<"O", "H", " ", " ", "Q", "T", "Y">> >>

MatOpts == << <<"M", "A", "T", "E", "R", "I", "A", "L">>,
              <<"N", "S", "N">>,
              <<"M", "A", "T">> >>

table_header(table) == [i \in 1..Len(table[1]) |-> upper(strip(cell_str(table[1][i])))]

\* a table the table path reads: two rows or more, a DESCRIPTION column and
\* an on-hand quantity column
usable_table(table) ==
    /\ Len(table) >= 2
    /\ idx_of(table_header(table), DescOpts) # <<>>
    /\ idx_of(table_header(table), OhOpts) # <<>>

\* re.search(r"\b(\d{9,10})\b", s): the empty tuple for no match
find_nsn(s) ==
    LET ok(i, k) ==
            /\ i + k - 1 <= Len(s)
            /\ \A j \in i..(i + k - 1) : isdigit_c(s[j])
            /\ (i = 1 \/ ~isword_c(s[i - 1]))
            /\ (i + k - 1 = Len(s) \/ ~isword_c(s[i + k]))
        starts == {i \in 1..Len(s) : ok(i, 10) \/ ok(i, 9)}
    IN  IF starts = {} THEN <<>>
        ELSE LET i == SetMin(starts)
             IN  IF ok(i, 10) THEN SubSeq(s, i, i + 9) ELSE SubSeq(s, i, i + 8)

\* s.replace(" ", "")
remove_spaces(s) == SelectSeq(s, LAMBDA c : c # " ")

\* the record of one data row r of a table: the empty tuple, or <<ItemRow>>
table_row(r, idx_desc, idx_oh, idx_mat) ==
    IF r = <<>> THEN <<>>
    ELSE LET desc == strip(cell_str(r[idx_desc]))
             oh   == _as_int(cell_str(r[idx_oh]))
             mat0 == IF idx_mat # <<>> THEN _clean_nsn(cell_str(r[idx_mat[1]])) ELSE <<>>
             mat  == IF mat0 = <<>> THEN find_nsn(remove_spaces(desc)) ELSE mat0
             d2   == strip(collapse_ws(desc))
         IN  IF desc = <<>> THEN <<>>
             ELSE IF oh = <<>> \/ oh[1] = 0 THEN <<>>
             ELSE IF mat # <<>> /\ d2 # <<>>
                  THEN << [description |-> d2, nsn |-> mat, qty |-> oh[1]] >>
                  ELSE <<>>

RECURSIVE table_rows_from(_, _, _, _)
table_rows_from(rs, idx_desc, idx_oh, idx_mat) ==
    IF rs = <<>> THEN <<>>
    ELSE table_row(Head(rs), idx_desc, idx_oh, idx_mat)
         \o table_rows_from(Tail(rs), idx_desc, idx_oh, idx_mat)

\* the body of "for table in tables or []" for one table
parse_table(table) ==
    IF ~usable_table(table) THEN <<>>
    ELSE table_rows_from(Tail(table),
                         idx_of(table_header(table), DescOpts)[1],
                         idx_of(table_header(table), OhOpts)[1],
                         idx_of(table_header(table), MatOpts))

\* tables = page.extract_tables(), [] when it raises
page_tables(pg) == IF pg.fails THEN <<>> ELSE pg.tables

RECURSIVE parse_tables(_)
parse_tables(tables) ==
    IF tables = <<>> THEN <<>> ELSE parse_table(Head(tables)) \o parse_tables(Tail(tables))

\* lines = [re.sub(r"\s+", " ", l).strip() for l in txt.splitlines() if l.strip()]
RECURSIVE text_lines(_)
text_lines(text) ==
    IF text = <<>> THEN <<>>
    ELSE IF strip(Head(text)) = <<>> THEN text_lines(Tail(text))
    ELSE <<strip(collapse_ws(Head(text)))>> \o text_lines(Tail(text))

\* the page has a line with both "OH" and "QTY"
is_bom_page(lines) ==
    \E i \in 1..Len(lines) :
        /\ contains(<<"O", "H">>, upper(lines[i]))
        /\ contains(<<"Q", "T", "Y">>, upper(lines[i]))

\* the header/footer test of the line loop
skip_line(l) ==
    LET UL == upper(l)
    IN  \/ startswith(UL, <<"L", "V", " ">>)
        \/ contains(<<"D", "E", "S", "C", "R", "I", "P", "T", "I", "O", "N">>, UL)
        \/ contains(<<"W", "T", "Y">>, UL)
        \/ contains(<<"A", "R", "C">>, UL)
        \/ contains(<<"C", "I", "I", "C">>, UL)

\* re.match(r"^(.*\D)\s+(\d{1,6})$", l): the empty tuple for no match, or
\* <<group 1, group 2>>
match_qty_line(l) ==
    LET n    == Len(l)
        nond == {i \in 1..n : ~isdigit_c(l[i])}
        p    == IF nond = {} THEN 0 ELSE SetMax(nond)
    IN  IF /\ p >= 2
           /\ p < n
           /\ n - p <= 6
           /\ isspace_c(l[p])
           /\ ~isdigit_c(l[p - 1])
        THEN << SubSeq(l, 1, p - 1), SubSeq(l, p + 1, n) >>
        ELSE <<>>

\* re.sub(r"^[A-Z]\s+", "", left)
drop_lv(left) ==
    IF Len(left) >= 2 /\ isupper_c(left[1]) /\ isspace_c(left[2])
    THEN LET nonsp == {i \in 2..Len(left) : ~isspace_c(left[i])}
         IN  IF nonsp = {} THEN <<>> ELSE SubSeq(left, SetMin(nonsp), Len(left))
    ELSE left

\* the record of one text line: the empty tuple, or <<ItemRow>>
line_row(l) ==
    LET m == match_qty_line(l)
    IN  IF skip_line(l) \/ m = <<>> THEN <<>>
        ELSE LET qty   == int_of_digits(m[2])
                 left  == drop_lv(strip(m[1]))
                 nsn   == find_nsn(remove_spaces(left))
                 left2 == IF nsn # <<>> THEN remove_all(left, nsn) ELSE left
                 desc  == strip_chars(collapse_ws(left2), {" ", "-", ":"})
             IN  IF qty = 0 THEN <<>>
                 ELSE IF desc # <<>> /\ nsn # <<>>
                      THEN << [description |-> desc, nsn |-> nsn, qty |-> qty] >>
                      ELSE <<>>

RECURSIVE line_rows_from(_)
line_rows_from(lines) ==
    IF lines = <<>> THEN <<>> ELSE line_row(Head(lines)) \o line_rows_from(Tail(lines))

\* the text of the page reaches "for l in lines": it is not blank and one of
\* its lines has "OH" and "QTY"
fallback_runs(pg) ==
    /\ \E i \in 1..Len(pg.text) : strip(pg.text[i]) # <<>>
    /\ is_bom_page(text_lines(pg.text))

\* the line-structured part of the page loop
parse_text(pg) ==
    IF fallback_runs(pg) THEN line_rows_from(text_lines(pg.text)) ELSE <<>>

\* one iteration of "for pno in range(start_page, len(pdf.pages))"
parse_page(pg) == parse_tables(page_tables(pg)) \o parse_text(pg)

\* the deduplication: dict insertion order, the larger qty kept
RECURSIVE dedup_from(_, _)
dedup_from(kept, rows) ==
    IF rows = <<>> THEN kept
    ELSE LET r    == Head(rows)
             same == {i \in 1..Len(kept) :
                        /\ upper(kept[i].description) = upper(r.description)
                        /\ kept[i].nsn = r.nsn}
         IN  IF same = {} THEN dedup_from(Append(kept, r), Tail(rows))
             ELSE LET i == SetMin(same)
                  IN  IF r.qty > kept[i].qty
                      THEN dedup_from([kept EXCEPT ![i] = r], Tail(rows))
                      ELSE dedup_from(kept, Tail(rows))

dedup(rows) == dedup_from(<<>>, rows)

RECURSIVE parse_pages(_)
parse_pages(pages) ==
    IF pages = <<>> THEN <<>> ELSE parse_page(Head(pages)) \o parse_pages(Tail(pages))

\* parse_bom_pdf(bom_bytes, start_page) on the document's pages
parse_bom_pdf(pages, sp) ==
    dedup(parse_pages(SubSeq(pages, sp + 1, Len(pages))))

\* ------------------------------------------------------------------------
\* Description wrapping
\* ------------------------------------------------------------------------

DESC_MAX_WIDTH_CHARS == 56

MAX_DESC_LINES == 2

Ellipsis == <<".", ".", ".">>

\* normalize_for_wrap(s): one space after every comma that has text after it

RECURSIVE space_after_commas(_)
space_after_commas(s) ==
    LET at == {i \in 1..(Len(s) - 1) : s[i] = "," /\ s[i + 1] # " "}
    IN  IF at = {} THEN s
        ELSE SubSeq(s, 1, SetMin(at)) \o <<" ">>
             \o space_after_commas(SubSeq(s, SetMin(at) + 1, Len(s)))

\* s.replace(", ", ",")
RECURSIVE replace_comma_space(_)
replace_comma_space(s) ==
    LET at == {i \in 1..(Len(s) - 1) : s[i] = "," /\ s[i + 1] = " "}
    IN  IF at = {} THEN s
        ELSE SubSeq(s, 1, SetMin(at))
             \o replace_comma_space(SubSeq(s, SetMin(at) + 2, Len(s)))

normalize_for_wrap(s) == strip(space_after_commas(replace_comma_space(s)))

\* str.expandtabs(): a tab becomes the spaces up to the next multiple of 8
RECURSIVE expandtabs(_)
expandtabs(s) ==
    LET tabs == {i \in 1..Len(s) : s[i] = "\t"}
    IN  IF tabs = {} THEN s
        ELSE LET i == SetMin(tabs)
             IN  SubSeq(s, 1, i - 1) \o [k \in 1..(8 - ((i - 1) % 8)) |-> " "]
                 \o expandtabs(SubSeq(s, i + 1, Len(s)))

\* textwrap: the text, its tabs expanded, as its chunks, the maximal runs of
\* whitespace and of other characters
RECURSIVE wrap_chunks_of(_)
wrap_chunks_of(s) ==
    IF s = <<>> THEN <<>>
    ELSE LET other == {i \in 1..Len(s) : isspace_c(s[i]) # isspace_c(s[1])}
             e     == IF other = {} THEN Len(s) ELSE SetMin(other) - 1
         IN  <<SubSeq(s, 1, e)>> \o wrap_chunks_of(SubSeq(s, e + 1, Len(s)))

wrap_split(text) == wrap_chunks_of(expandtabs(text))

RECURSIVE concat(_)
concat(chunks) == IF chunks = <<>> THEN <<>> ELSE Head(chunks) \o concat(Tail(chunks))

RECURSIVE total_len(_)
total_len(chunks) == IF chunks = <<>> THEN 0 ELSE Len(Head(chunks)) + total_len(Tail(chunks))

\* textwrap.TextWrapper._wrap_chunks with drop_whitespace, break_long_words
\* and no indent
RECURSIVE wrap_chunks(_, _, _)
wrap_chunks(chunks, lines, width) ==
    IF chunks = <<>> THEN lines
    ELSE LET c0    == IF strip(Head(chunks)) = <<>> /\ lines # <<>>
                      THEN Tail(chunks) ELSE chunks
             fits  == {k \in 0..Len(c0) : total_len(SubSeq(c0, 1, k)) <= width}
             n     == SetMax(fits)
             cur1  == SubSeq(c0, 1, n)
             rest1 == SubSeq(c0, n + 1, Len(c0))
             long  == rest1 # <<>> /\ Len(rest1[1]) > width
             end   == width - total_len(cur1)
             cur2  == IF long THEN Append(cur1, SubSeq(rest1[1], 1, end)) ELSE cur1
             rest2 == IF long
                      THEN <<SubSeq(rest1[1], end + 1, Len(rest1[1]))>> \o Tail(rest1)
                      ELSE rest1
             cur3  == IF cur2 # <<>> /\ strip(cur2[Len(cur2)]) = <<>>
                      THEN SubSeq(cur2, 1, Len(cur2) - 1) ELSE cur2
         IN  wrap_chunks(rest2,
                         IF cur3 # <<>> THEN Append(lines, concat(cur3)) ELSE lines,
                         width)

\* textwrap.wrap(text, width, break_long_words=True, break_on_hyphens=False)
textwrap_wrap(text, width) == wrap_chunks(wrap_split(text), <<>>, width)

\* the lines draw_wrapped_description draws for desc
wrapped_description(desc) ==
    LET lines0 == textwrap_wrap(normalize_for_wrap(desc), DESC_MAX_WIDTH_CHARS)
        lines  == IF lines0 = <<>> THEN << <<>> >> ELSE lines0
    IN  IF Len(lines) > MAX_DESC_LINES
        THEN LET kept == SubSeq(lines, 1, MAX_DESC_LINES)
                 last == kept[MAX_DESC_LINES]
             IN  IF Len(last) > 3
                 THEN [kept EXCEPT ![MAX_DESC_LINES] =
                          SubSeq(last, 1, Len(last) - 3) \o Ellipsis]
                 ELSE kept
        ELSE lines

\* Helvetica's advance widths, in 1/1000 of the font size
char_width(c) ==
    CASE c \in {" ", ",", ".", ":", "/", "I"} -> 278
      [] c \in {"-", "(", ")"} -> 333
      [] c = "J" -> 500
      [] isdigit_c(c) \/ c \in {"L", "_"} -> 556
      [] c \in {"F", "T", "Z"} -> 611
      [] c \in {"A", "B", "E", "K", "P", "S", "V", "X", "Y"} -> 667
      [] c \in {"C", "D", "H", "N", "R", "U"} -> 722
      [] c \in {"G", "O", "Q"} -> 778
      [] c = "M" -> 833
      [] c = "W" -> 944

CharWidths == <<278, 333, 500, 556, 611, 667, 722, 778, 833, 944>>

RECURSIVE units_from(_, _)
units_from(s, k) ==
    IF k = 0 THEN 0
    ELSE CharWidths[k] * Cardinality({i \in 1..Len(s) : char_width(s[i]) = CharWidths[k]})
         + units_from(s, k - 1)

\* stringWidth(s, "Helvetica", 1000)
string_units(s) == units_from(s, Len(CharWidths))

\* reportlab's _simpleSplit: words put on a line while the line's width stays
\* within max_width; widths are compared in 1/1000 of a point
RECURSIVE simple_split_from(_, _, _, _, _, _)
simple_split_from(words, L, O, w, font_size, max_width) ==
    IF words = <<>> THEN (IF O # <<>> THEN Append(L, join_space(O)) ELSE L)
    ELSE LET t  == Head(words)
             ws == char_width(" ") * font_size
             lt == string_units(t) * font_size
         IN  IF w + ws + lt <= max_width * 1000 \/ O = <<>>
             THEN simple_split_from(Tail(words), L, Append(O, t), w + ws + lt,
                                    font_size, max_width)
             ELSE simple_split_from(Tail(words), Append(L, join_space(O)), <<t>>, lt,
                                    font_size, max_width)

\* simpleSplit(text, "Helvetica", font_size, max_width) of a one-line text
simpleSplit(text, font_size, max_width) ==
    simple_split_from(split(text), <<>>, <<>>, 0 - char_width(" ") * font_size,
                      font_size, max_width)

\* _wrap_desc(desc, max_width, "Helvetica", font_size, max_lines)
_wrap_desc(desc, max_width, font_size, max_lines) ==
    LET lines == simpleSplit(desc, font_size, max_width)
    IN  IF Len(lines) <= max_lines THEN lines
        ELSE LET kept == SubSeq(lines, 1, max_lines)
                 last == kept[max_lines]
             IN  IF Len(last) > 3
                 THEN [kept EXCEPT ![max_lines] =
                          SubSeq(last, 1, Len(last) - 3) \o Ellipsis]
                 ELSE kept

\* ------------------------------------------------------------------------
\* Layout constants
\* ------------------------------------------------------------------------

\* dd1750_core.py
ROW_HEIGHT == 19

TOP_Y == 655

BOTTOM_Y == 110

\* "if y < (BOTTOM_Y + 28)"
HEADROOM == 28

\* app.py, build_overlay
Y_TOP == 525

Y_BOTTOM == 95

ROW_H == 24

DESC_W == 285

DESC_FONT_SIZE == 10

\* ------------------------------------------------------------------------
\* Inputs
\* ------------------------------------------------------------------------

\* the longest text a document may have, in lines (dd1750_core.py)
MaxLines == 4

\* the most pages of a BOM that app.py reads
MaxPages == 2

\* the largest start_page of a request
MaxStart == 1

\* the longest item list handed to a renderer on its own
MaxItems == 60

L_DESC == <<"C", "A", "B", "L", "E", " ", "A", "S", "S", "E", "M", "B", "L", "Y">>

L_DIGITS == <<"0", "1", "2", "3", "4", "5", "6", "7", "8", "9">>

L_QTY3 == <<"X", " ", "U", " ", "E", "A", " ", "9", "G", " ", "3">>

L_BADQTY == <<"X", " ", "U", " ", "E", "A", " ", "8", "5", "0", "9", "0", "3", "0", "7">>

L_NSN == <<"N", "S", "N", ":", " ", "5", "9", "9", "5", "-", "0", "1">>

L_ZERO == <<"X", " ", "E", "A", " ", "0">>

L_HEADER == <<"L", "V", " ", "D", "E", "S", "C", "R", "I", "P", "T", "I", "O", "N", " ", "O", "H", " ", "Q", "T", "Y">>

L_PAD == <<" ", "X", " ", "5", " ">>

L_BLANK == <<" ", " ">>

\* the raw lines page.extract_text() may hold
RawLines == {L_DESC, L_DIGITS, L_QTY3, L_BADQTY, L_NSN, L_ZERO, L_HEADER, L_PAD, L_BLANK}

C_DESC == <<"0", "1", "2", "3", "4", "5", "6", "7", "8", " ", "-", " ", "B", "A", "S", "E", " ", "A", "S", "S", "E", "M", "B", "L", "Y">>

T_HEADER == <<<<"L", "V">>, <<"D", "E", "S", "C", "R", "I", "P", "T", "I", "O", "N">>, <<"O", "H", " ", "Q", "T", "Y">>>>

T_BADHEADER == <<<<"L", "V">>, <<"D", "E", "S", "C", "R", "I", "P", "T", "I", "O", "N">>, <<"Q", "T", "Y">>>>

\* the OH QTY cells of a table row
QtyCells == {<<"4">>, <<"2">>, <<"-", "5">>, <<"0">>, <<"n", "/", "a">>}

\* the tables of a page: none, one without an OH QTY column, or one usable
\* table of one data row
TableSeqs ==
    { <<>>, << <<T_BADHEADER, <<<<"B">>, C_DESC, <<"4">>>> >> >> }
    \cup { << <<T_HEADER, <<<<"B">>, C_DESC, q>> >> >> : q \in QtyCells }
    \cup { << <<T_HEADER, <<<<"B">>, <<"C", "A", "B", "L", "E", " ", "A", "S", "S", "E", "M", "B", "L", "Y">>, <<"4">>>> >> >>,
           << <<T_HEADER, <<<<"B">>, None, <<"4">>>> >> >> }

P_ROW4 == <<"B", " ", "0", "1", "2", "3", "4", "5", "6", "7", "8", " ", "-", " ", "B", "A", "S", "E", " ", "A", "S", "S", "E", "M", "B", "L", "Y", " ", "4">>

P_ROW5 == <<"B", " ", "0", "1", "2", "3", "4", "5", "6", "7", "8", " ", "-", " ", "B", "A", "S", "E", " ", "A", "S", "S", "E", "M", "B", "L", "Y", " ", "5">>

P_ZERO == <<"0", "1", "2", "3", "4", "5", "6", "7", "8", "9", " ", "-", " ", "P", "U", "M", "P", " ", "0">>

\* the body lines of a page's text
BodyLines == {P_ROW4, P_ROW5, P_ZERO, L_DESC, L_DIGITS, L_QTY3}

\* the text of a page, as lines
Texts ==
    { <<>>, <<L_BLANK>>, <<L_HEADER>>, <<P_ROW4>>,
      <<L_HEADER, L_DESC, L_DIGITS, L_QTY3>> }
    \cup { <<L_HEADER, l>> : l \in BodyLines }

PageSet ==
    { [fails |-> f, tables |-> ts, text |-> tx] :
        f \in BOOLEAN, ts \in TableSeqs, tx \in Texts }
    \ { pg \in [fails : {TRUE}, tables : {<<>>}, text : Texts] : TRUE }

\* parse_page over PageSet, tabulated: <<page, the rows it adds>>
PageTable == { <<pg, parse_page(pg)>> : pg \in PageSet }

PageRows(pg) == (CHOOSE e \in PageTable : e[1] = pg)[2]

\* no page read yet
NoPage == [fails |-> FALSE, tables |-> <<>>, text |-> <<>>]

\* ------------------------------------------------------------------------
\* State
\* ------------------------------------------------------------------------

vars == <<prog, pc, text_rows, pos, st, start_page, pno, page, item_rows,
          items, idx, y, box_no, cur, dirty, overlay, add_clones, objs, out, mi,
          output, error>>

parse_vars == <<text_rows, pos, st, start_page, pno, page, item_rows>>

canvas_vars == <<cur, dirty, overlay>>

merge_vars == <<add_clones, objs, out, mi>>

\* no canvas, overlay or output yet
FreshCanvas ==
    /\ idx = 0
    /\ box_no = 1
    /\ cur = <<>>
    /\ dirty = FALSE
    /\ overlay = <<>>
    /\ add_clones = FALSE
    /\ objs = << <<>> >>
    /\ out = <<>>
    /\ mi = 0
    /\ output = <<>>
    /\ error = ""

\* the state before a pipeline has read anything
Fresh ==
    /\ text_rows = <<>>
    /\ pos = 1
    /\ st = ParserInit
    /\ start_page = 0
    /\ pno = 0
    /\ page = NoPage
    /\ item_rows = <<>>
    /\ items = <<>>
    /\ y = 0
    /\ FreshCanvas

Init ==
    /\ prog \in {"app", "core"}
    /\ pc = IF prog = "app" THEN "index" ELSE "extract"
    /\ Fresh

\* ------------------------------------------------------------------------
\* dd1750_core.py: generate_dd1750_from_pdf
\* ------------------------------------------------------------------------

\* extract_pdf_text_rows: one line of a page's text; blank lines are dropped
ExtractLine ==
    /\ prog = "core" /\ pc = "extract"
    /\ Len(text_rows) < MaxLines
    /\ \E raw \in RawLines :
          text_rows' = IF strip(raw) # <<>> THEN Append(text_rows, strip(raw))
                       ELSE text_rows
    /\ UNCHANGED <<prog, pc, pos, st, start_page, pno, page, item_rows, items,
                   idx, y, box_no, canvas_vars, merge_vars, output, error>>

\* extract_pdf_text_rows returns; parse_items_from_rows starts
ExtractDone ==
    /\ prog = "core" /\ pc = "extract"
    /\ pc' = "parse"
    /\ UNCHANGED <<prog, parse_vars, items, idx, y, box_no, canvas_vars, merge_vars,
                   output, error>>

\* one iteration of "for line in rows"
ParseLine ==
    /\ prog = "core" /\ pc = "parse"
    /\ pos <= Len(text_rows)
    /\ st' = parse_line(st, text_rows[pos])
    /\ pos' = pos + 1
    /\ UNCHANGED <<prog, pc, text_rows, start_page, pno, page, item_rows, items,
                   idx, y, box_no, canvas_vars, merge_vars, output, error>>

\* parse_items_from_rows returns items; the canvas is made, y = TOP_Y, box_no = 1
ParseDone ==
    /\ prog = "core" /\ pc = "parse"
    /\ pos > Len(text_rows)
    /\ items' = st.items
    /\ y' = TOP_Y
    /\ box_no' = 1
    /\ idx' = 0
    /\ pc' = "render"
    /\ UNCHANGED <<prog, parse_vars, canvas_vars, merge_vars, output, error>>

\* the text draw_wrapped_description draws at y for desc and nsn
draw_wrapped_description(yy, desc, nsn) ==
    LET lines == wrapped_description(desc)
    IN  << [op |-> "desc", y |-> yy, text |-> lines[1]] >>
        \o (IF Len(lines) > 1 THEN << [op |-> "desc2", y |-> yy - 9, text |-> lines[2]] >>
            ELSE <<>>)
        \o (IF nsn # <<>> THEN << [op |-> "nsn", y |-> yy - 18, text |-> nsn] >> ELSE <<>>)

\* the draws of one row of the drawing loop of generate_dd1750_from_pdf
core_row_draws(yy, n, item) ==
    << [op |-> "box", y |-> yy, num |-> n] >>
    \o draw_wrapped_description(yy, item.description, item.nsn)
    \o << [op |-> "uoi", y |-> yy, text |-> <<"E", "A">>],
          [op |-> "init", y |-> yy, num |-> item.qty],
          [op |-> "spares", y |-> yy, num |-> 0],
          [op |-> "total", y |-> yy, num |-> item.qty] >>

\* the drawing loop with the box number starting again at 1 on every page
CoreRow_restart ==
    /\ prog = "core" /\ pc = "render"
    /\ idx < Len(items)
    /\ idx' = idx + 1
    /\ LET item   == items[idx + 1]
           break  == y < BOTTOM_Y + HEADROOM
           yy     == IF break THEN TOP_Y ELSE y
           n      == IF break THEN 1 ELSE box_no
       IN  IF item.qty <= 0
           THEN UNCHANGED <<y, box_no, canvas_vars>>
           ELSE /\ overlay' = IF break THEN Append(overlay, cur) ELSE overlay
                /\ cur' = (IF break THEN <<>> ELSE cur) \o core_row_draws(yy, n, item)
                /\ dirty' = TRUE
                /\ y' = yy - ROW_HEIGHT
                /\ box_no' = n + 1
    /\ UNCHANGED <<prog, pc, parse_vars, items, merge_vars, output, error>>

\* the loop body with the page-break test "y < BOTTOM_Y": the headroom for the
\* description lines and the stock-number line is left out
CoreRow_noheadroom ==
    /\ prog = "core" /\ pc = "render"
    /\ idx < Len(items)
    /\ idx' = idx + 1
    /\ LET item   == items[idx + 1]
           break  == y < BOTTOM_Y
           yy     == IF break THEN TOP_Y ELSE y
       IN  IF item.qty <= 0
           THEN UNCHANGED <<y, box_no, canvas_vars>>
           ELSE /\ overlay' = IF break THEN Append(overlay, cur) ELSE overlay
                /\ cur' = (IF break THEN <<>> ELSE cur) \o core_row_draws(yy, box_no, item)
                /\ dirty' = TRUE
                /\ y' = yy - ROW_HEIGHT
                /\ box_no' = box_no + 1
    /\ UNCHANGED <<prog, pc, parse_vars, items, merge_vars, output, error>>

\* one iteration of "for item in items"
CoreRow ==
    /\ prog = "core" /\ pc = "render"
    /\ idx < Len(items)
    /\ idx' = idx + 1
    /\ LET item   == items[idx + 1]
           break  == y < BOTTOM_Y + HEADROOM
           yy     == IF break THEN TOP_Y ELSE y
       IN  IF item.qty <= 0
           THEN UNCHANGED <<y, box_no, canvas_vars>>
           ELSE /\ overlay' = IF break THEN Append(overlay, cur) ELSE overlay
                /\ cur' = (IF break THEN <<>> ELSE cur) \o core_row_draws(yy, box_no, item)
                /\ dirty' = TRUE
                /\ y' = yy - ROW_HEIGHT
                /\ box_no' = box_no + 1
    /\ UNCHANGED <<prog, pc, parse_vars, items, merge_vars, output, error>>

\* c.save(), then merge_template opens the template and the overlay
CoreSave ==
    /\ prog = "core" /\ pc = "render"
    /\ idx >= Len(items)
    /\ overlay' = IF dirty THEN Append(overlay, cur) ELSE overlay
    /\ cur' = <<>>
    /\ dirty' = FALSE
    /\ add_clones' \in BOOLEAN
    /\ objs' = << <<>> >>
    /\ out' = <<>>
    /\ mi' = 0
    /\ pc' = "merge"
    /\ UNCHANGED <<prog, parse_vars, items, idx, y, box_no, output, error>>

\* writer.add_page(page) for the page object objs[k]
add_page(os, o, k, clones) ==
    IF clones THEN [objs |-> Append(os, os[k]), out |-> Append(o, Len(os) + 1)]
    ELSE [objs |-> os, out |-> Append(o, k)]

\* one iteration of "for overlay_page in overlay_reader.pages": page = base_page
CoreMergePage ==
    /\ prog = "core" /\ pc = "merge"
    /\ mi < Len(overlay)
    /\ LET merged == [objs EXCEPT ![1] = Append(objs[1], mi + 1)]
           added  == add_page(merged, out, 1, add_clones)
       IN  /\ objs' = added.objs
           /\ out' = added.out
    /\ mi' = mi + 1
    /\ UNCHANGED <<prog, pc, parse_vars, items, idx, y, box_no, canvas_vars,
                   add_clones, output, error>>

\* writer.write(f): the pages as they are when written
written(os, o) == [k \in 1..Len(o) |-> [obj |-> o[k], merged |-> os[o[k]]]]

\* writer.write(f); generate_dd1750_from_pdf returns items
CoreWrite ==
    /\ prog = "core" /\ pc = "merge"
    /\ mi >= Len(overlay)
    /\ output' = << written(objs, out) >>
    /\ pc' = "done"
    /\ UNCHANGED <<prog, parse_vars, items, idx, y, box_no, canvas_vars, merge_vars,
                   error>>

\* ------------------------------------------------------------------------
\* app.py: index
\* ------------------------------------------------------------------------

\* POST: the files and start_page of the request are read
IndexRequest ==
    /\ prog = "app" /\ pc = "index"
    /\ \E bom \in BOOLEAN, template \in BOOLEAN, sp \in 0..MaxStart :
          IF ~bom \/ ~template
          THEN /\ error' = "Please upload both BOM and template."
               /\ pc' = "done"
               /\ UNCHANGED start_page
          ELSE /\ start_page' = sp
               /\ pc' = "pages"
               /\ UNCHANGED error
    /\ UNCHANGED <<prog, text_rows, pos, st, pno, page, item_rows, items, idx, y,
                   box_no, canvas_vars, merge_vars, output>>

\* a page before start_page is not read
SkipPage ==
    /\ prog = "app" /\ pc = "pages"
    /\ pno < MaxPages
    /\ pno < start_page
    /\ pno' = pno + 1
    /\ UNCHANGED <<prog, pc, text_rows, pos, st, start_page, page, item_rows,
                   items, idx, y, box_no, canvas_vars, merge_vars, output, error>>

\* one iteration of "for pno in range(start_page, len(pdf.pages))"
ParsePage ==
    /\ prog = "app" /\ pc = "pages"
    /\ pno < MaxPages
    /\ pno >= start_page
    /\ \E pg \in PageSet :
          /\ item_rows' = item_rows \o PageRows(pg)
          /\ page' = pg
    /\ pno' = pno + 1
    /\ UNCHANGED <<prog, pc, text_rows, pos, st, start_page, items, idx, y, box_no,
                   canvas_vars, merge_vars, output, error>>

\* the last page is passed: the rows are deduplicated, parse_bom_pdf returns
ParseBomDone ==
    /\ prog = "app" /\ pc = "pages"
    /\ items' = dedup(item_rows)
    /\ pc' = "parsed"
    /\ UNCHANGED <<prog, parse_vars, idx, y, box_no, canvas_vars, merge_vars, output,
                   error>>

\* "if not items": the error page is returned
IndexEmpty ==
    /\ prog = "app" /\ pc = "parsed"
    /\ items = <<>>
    /\ error' = "No items parsed from BOM."
    /\ pc' = "done"
    /\ UNCHANGED <<prog, parse_vars, items, idx, y, box_no, canvas_vars, merge_vars,
                   output>>

\* build_overlay(items) starts: the canvas is made, c.setFont, idx = 0
BuildOverlay ==
    /\ prog = "app" /\ pc = "parsed"
    /\ items # <<>>
    /\ idx' = 0
    /\ cur' = <<>>
    /\ dirty' = TRUE
    /\ overlay' = <<>>
    /\ pc' = "outer"
    /\ UNCHANGED <<prog, parse_vars, items, y, box_no, merge_vars, output, error>>

\* "while idx < len(items)": a page starts, y = Y_TOP
OverlayPage ==
    /\ prog = "app" /\ pc = "outer"
    /\ idx < Len(items)
    /\ y' = Y_TOP
    /\ pc' = "inner"
    /\ UNCHANGED <<prog, parse_vars, items, idx, box_no, canvas_vars, merge_vars,
                   output, error>>

\* the draws of one row of build_overlay
app_row_draws(yy, row_num, it) ==
    LET desc_lines == _wrap_desc(upper(it.description), DESC_W, DESC_FONT_SIZE, 2)
    IN  << [op |-> "box", y |-> yy - 15, num |-> row_num],
           [op |-> "desc", y |-> yy - 10, text |-> desc_lines[1]] >>
        \o (IF Len(desc_lines) > 1
            THEN << [op |-> "desc2", y |-> yy - 21, text |-> desc_lines[2]] >> ELSE <<>>)
        \o << [op |-> "nsn", y |-> yy - 33, text |-> it.nsn],
              [op |-> "uoi", y |-> yy - 15, text |-> <<"E", "A">>],
              [op |-> "init", y |-> yy - 15, num |-> it.qty],
              [op |-> "spares", y |-> yy - 15, num |-> 0],
              [op |-> "total", y |-> yy - 15, num |-> it.qty] >>

\* the per-page loop with the row height left out of its test
OverlayRow_norowh ==
    /\ prog = "app" /\ pc = "inner"
    /\ idx < Len(items) /\ y >= Y_BOTTOM
    /\ cur' = cur \o app_row_draws(y, idx + 1, items[idx + 1])
    /\ dirty' = TRUE
    /\ y' = y - ROW_H
    /\ idx' = idx + 1
    /\ UNCHANGED <<prog, pc, parse_vars, items, box_no, overlay, merge_vars, output,
                   error>>

\* one iteration of the per-page loop
OverlayRow ==
    /\ prog = "app" /\ pc = "inner"
    /\ idx < Len(items) /\ y - ROW_H >= Y_BOTTOM
    /\ cur' = cur \o app_row_draws(y, idx + 1, items[idx + 1])
    /\ dirty' = TRUE
    /\ y' = y - ROW_H
    /\ idx' = idx + 1
    /\ UNCHANGED <<prog, pc, parse_vars, items, box_no, overlay, merge_vars, output,
                   error>>

\* the per-page loop ends: c.showPage()
OverlayShowPage ==
    /\ prog = "app" /\ pc = "inner"
    /\ ~(idx < Len(items) /\ y - ROW_H >= Y_BOTTOM)
    /\ overlay' = Append(overlay, cur)
    /\ cur' = <<>>
    /\ dirty' = FALSE
    /\ pc' = "outer"
    /\ UNCHANGED <<prog, parse_vars, items, idx, y, box_no, merge_vars, output, error>>

\* c.save(), then merge_overlay_on_template opens the template and the overlay
OverlaySave ==
    /\ prog = "app" /\ pc = "outer"
    /\ idx >= Len(items)
    /\ overlay' = IF dirty THEN Append(overlay, cur) ELSE overlay
    /\ cur' = <<>>
    /\ dirty' = FALSE
    /\ add_clones' \in BOOLEAN
    /\ objs' = << <<>> >>
    /\ out' = <<>>
    /\ mi' = 0
    /\ pc' = "merge"
    /\ UNCHANGED <<prog, parse_vars, items, idx, y, box_no, output, error>>

\* one iteration of "for p in ov.pages": newp = base.copy()
AppMergePage ==
    /\ prog = "app" /\ pc = "merge"
    /\ mi < Len(overlay)
    /\ LET copied == Append(objs, objs[1])
           newp   == Len(copied)
           merged == [copied EXCEPT ![newp] = Append(copied[newp], mi + 1)]
           added  == add_page(merged, out, newp, add_clones)
       IN  /\ objs' = added.objs
           /\ out' = added.out
    /\ mi' = mi + 1
    /\ UNCHANGED <<prog, pc, parse_vars, items, idx, y, box_no, canvas_vars,
                   add_clones, output, error>>

\* out.write(out_buf); send_file
SendFile ==
    /\ prog = "app" /\ pc = "merge"
    /\ mi >= Len(overlay)
    /\ output' = << written(objs, out) >>
    /\ pc' = "done"
    /\ UNCHANGED <<prog, parse_vars, items, idx, y, box_no, canvas_vars, merge_vars,
                   error>>

\* ------------------------------------------------------------------------
\* Specifications
\* ------------------------------------------------------------------------

RenderNext ==
    \/ BuildOverlay
    \/ CoreRow \/ CoreSave \/ CoreMergePage \/ CoreWrite
    \/ OverlayPage \/ OverlayRow \/ OverlayShowPage \/ OverlaySave
    \/ AppMergePage \/ SendFile

Next ==
    \/ ExtractLine \/ ExtractDone \/ ParseLine \/ ParseDone
    \/ IndexRequest \/ SkipPage \/ ParsePage \/ ParseBomDone \/ IndexEmpty
    \/ RenderNext

\* the two pipelines, from the request to the response
Spec == Init /\ [][Next]_vars

\* ------------------------------------------------------------------------
\* The renderers on item lists of any length
\* ------------------------------------------------------------------------

DigitSeq == <<"0", "1", "2", "3", "4", "5", "6", "7", "8", "9">>

\* a description that needs a second line in both renderers
L_LONG ==
    <<"C", "A", "B", "L", "E", " ", "A", "S", "S", "E", "M", "B", "L", "Y", ",", " ", "S", "P", "E", "C", "I", "A", "L", " ", "P", "U", "R", "P", "O", "S", "E", ",", " ", "E", "L", "E",
      "C", "T", "R", "I", "C", "A", "L", ",", " ", "B", "R", "A", "N", "C", "H", "E", "D", ",", " ", "2", "4", " ", "V", "O", "L", "T", " ", "D", "I", "R", "E", "C", "T", " ", "C", "U", "R", "R", "E", "N", "T">>

\* the k-th record of a parsed list: the keys differ by the stock number, and
\* every second description needs two lines
ItemOf(p, k) ==
    [description |-> IF k % 2 = 0 THEN L_LONG ELSE L_DESC,
     nsn |-> <<"0", "1", "2", "3", "4", "5", "6">>
             \o <<DigitSeq[((k \div 10) % 10) + 1], DigitSeq[(k % 10) + 1]>>,
     qty |-> IF p = "app" /\ k % 5 = 0 THEN 0 - 5 ELSE (k % 3) + 1]

ItemList(p, n) == [k \in 1..n |-> ItemOf(p, k)]

\* the state in which the parser has returned its_items: before
\* "if not items" of index, before the drawing loop of generate_dd1750_from_pdf
Parsed(its) ==
    /\ pc = IF prog = "app" THEN "parsed" ELSE "render"
    /\ text_rows = <<>>
    /\ pos = 1
    /\ st = [ParserInit EXCEPT !.items = IF prog = "core" THEN its ELSE <<>>]
    /\ start_page = 0
    /\ pno = 0
    /\ page = NoPage
    /\ item_rows = IF prog = "app" THEN its ELSE <<>>
    /\ items = its
    /\ y = IF prog = "core" THEN TOP_Y ELSE 0
    /\ FreshCanvas

InitRender ==
    /\ prog \in {"app", "core"}
    /\ \E n \in 0..MaxItems :
          /\ prog = "app" => n >= 1
          /\ Parsed(ItemList(prog, n))

\* the renderers and the merge, from a parsed list to the written document
SpecRender == InitRender /\ [][RenderNext]_vars

\* ------------------------------------------------------------------------
\* The renderers on one item of any description
\* ------------------------------------------------------------------------

\* the most words of a description
MaxWords == 3

WordLens == {2, 5, 42, 56}

LongWord(n) == [i \in 1..n |-> "A"]

RECURSIVE WordsOf(_)
WordsOf(lens) ==
    IF lens = <<>> THEN <<>>
    ELSE IF Len(lens) = 1 THEN LongWord(lens[1])
    ELSE LongWord(lens[1]) \o <<" ">> \o WordsOf(Tail(lens))

\* descriptions of one to MaxWords words, and one of comma-joined tokens
WrapDescs ==
    { WordsOf(lens) : lens \in UNION { [1..n -> WordLens] : n \in 1..MaxWords } }
    \cup { <<"C", "A", "B", "L", "E", ",", "A", "S", "S", "E", "M", "B", "L", "Y">> }

InitWrap ==
    /\ prog \in {"app", "core"}
    /\ \E d \in WrapDescs :
          Parsed(<< [description |-> d, nsn |-> <<>>, qty |-> 1] >>)

SpecWrap == InitWrap /\ [][RenderNext]_vars

\* ------------------------------------------------------------------------
\* Properties of the renderers and of the merge
\* ------------------------------------------------------------------------

\* everything drawn so far, in drawing order across the pages
drawn == concat(overlay) \o cur

\* the box numbers among draws, in drawing order
box_numbers(draws) ==
    LET boxes == SelectSeq(draws, LAMBDA d : d.op = "box")
    IN  [k \in 1..Len(boxes) |-> boxes[k].num]

\* the overlay is complete
rendered == pc \in {"merge", "done"} /\ error = ""

\* C3: the box numbers drawn, read in drawing order across all pages, are
\* exactly 1, 2, ..., N for an item list of length N: no gap, no repeat and no
\* restart at a page break.
C3_BoxNumbers ==
    LET nums == box_numbers(drawn)
    IN  /\ nums = [k \in 1..Len(nums) |-> k]
        /\ rendered => Len(nums) = Len(items)

C3_Witness == pc = "done" /\ Len(overlay) >= 3 /\ Len(box_numbers(drawn)) = Len(items)

\* the rows that fit on a page: build_overlay draws a row while
\* y - ROW_H >= Y_BOTTOM, the drawing loop of generate_dd1750_from_pdf breaks
\* the page when y < BOTTOM_Y + HEADROOM
RowsPerPage ==
    IF prog = "app" THEN (Y_TOP - Y_BOTTOM) \div ROW_H
    ELSE ((TOP_Y - (BOTTOM_Y + HEADROOM)) \div ROW_HEIGHT) + 1

\* page k of the complete overlay holds rows (k-1)*R+1 .. k*R, the last page
\* the rest, at least one
PagesOfR ==
    (rendered /\ items # <<>>) =>
        LET R == RowsPerPage
            N == Len(items)
            P == Len(overlay)
        IN  /\ P = (N + R - 1) \div R
            /\ \A k \in 1..P :
                  box_numbers(overlay[k]) =
                      [j \in 1..(IF k < P THEN R ELSE N - (P - 1) * R) |-> (k - 1) * R + j]

\* a bound on the steps a render has left: the merge has a step per overlay
\* page left and the write; the drawing loop of generate_dd1750_from_pdf a step
\* per item left; build_overlay three steps per item left (page start, row,
\* showPage), one less once the page has started, and a page that has started
\* without a row yet may not end
StepsLeft ==
    LET N        == Len(items)
        MergeMax == N + 3
    IN  CASE pc = "done"   -> 0
          [] pc = "merge"  -> 1 + (Len(overlay) - mi)
          [] pc = "render" -> MergeMax + 1 + (N - idx)
          [] pc = "parsed" -> MergeMax + 3 * N + 3
          [] pc = "outer"  -> MergeMax + 3 * (N - idx) + 2
          [] pc = "inner"  -> MergeMax + 3 * (N - idx) + (IF cur = <<>> THEN 1 ELSE 3)

\* C4: there is a fixed rows-per-page R such that page k of the overlay holds
\* exactly rows (k-1)*R+1 .. k*R, the last page fewer but at least one; no page
\* is empty for a non-empty list, and the page loop terminates: every step
\* lowers StepsLeft, which never goes below 0 and is 0 only when the document
\* is written.
C4_RowsPerPage ==
    /\ [](PagesOfR /\ StepsLeft >= 0 /\ (StepsLeft = 0 <=> pc = "done"))
    /\ [][StepsLeft' < StepsLeft]_vars

C4_Witness ==
    /\ pc = "done" /\ Len(overlay) >= 2
    /\ Len(box_numbers(overlay[Len(overlay)])) < RowsPerPage

\* the draws of the i-th row among draws
row_draws(draws, i) ==
    LET boxes == {k \in 1..Len(draws) : draws[k].op = "box"}
        first == CHOOSE k \in boxes : Cardinality({b \in boxes : b < k}) = i - 1
        after == {b \in boxes : b > first}
    IN  SubSeq(draws, first, IF after = {} THEN Len(draws) ELSE SetMin(after) - 1)

\* the description lines rendered for the i-th row
desc_lines(draws, i) ==
    LET ds == SelectSeq(row_draws(draws, i), LAMBDA d : d.op \in {"desc", "desc2"})
    IN  [k \in 1..Len(ds) |-> ds[k].text]

\* the unwrapped text of desc needs more than two lines
needs_more_lines(desc) ==
    IF prog = "app"
    THEN Len(simpleSplit(upper(desc), DESC_FONT_SIZE, DESC_W)) > 2
    ELSE Len(textwrap_wrap(normalize_for_wrap(desc), DESC_MAX_WIDTH_CHARS)) > 2

ends_with_ellipsis(s) == Len(s) >= 3 /\ SubSeq(s, Len(s) - 2, Len(s)) = Ellipsis

\* C5: the wrapping step renders at most 2 lines for a description, and when
\* the unwrapped text needs more than 2 lines the second rendered line ends
\* with "...", whatever its length.
C5_TwoLinesEllipsis ==
    \A i \in 1..Len(box_numbers(drawn)) :
        LET ls == desc_lines(drawn, i)
        IN  /\ Len(ls) <= 2
            /\ needs_more_lines(items[i].description)
                  => Len(ls) = 2 /\ ends_with_ellipsis(ls[2])

\* C8: the merge produces one output page per overlay page, in overlay order;
\* output page k is a copy of the template's first page composited with
\* overlay page k only, the base page is never mutated and the output pages are
\* distinct page objects.
C8_MergedPages ==
    (pc = "done" /\ output # <<>>) =>
        LET pages == output[1]
        IN  /\ Len(pages) = Len(overlay)
            /\ \A k \in 1..Len(pages) : pages[k].merged = <<k>>
            /\ \A j, k \in 1..Len(pages) : j # k => pages[j].obj # pages[k].obj
            /\ objs[1] = <<>>

\* the bottom margin of the renderer that runs
bottom_bound == IF prog = "app" THEN Y_BOTTOM ELSE BOTTOM_Y

row_height == IF prog = "app" THEN ROW_H ELSE ROW_HEIGHT

\* C11: every text element of every drawn row (box number, both description
\* lines, the stock-number line, the unit and quantity columns) is placed at
\* a y coordinate not below the renderer's bottom bound, on every page and at
\* every moment of the rendering.
C11_AboveBottom ==
    \A k \in 1..Len(drawn) : drawn[k].y >= bottom_bound

\* the rendering has finished with more than one page, and the last row of a
\* full page carries a second description line and a stock-number line, the
\* latter less than one row height above the bottom bound
C11_Witness ==
    /\ pc = "done" /\ Len(overlay) >= 2
    /\ \E p \in 1..Len(overlay) - 1 :
           LET pg == overlay[p]
           IN  \E i, j \in 1..Len(pg) :
                  /\ pg[i].op = "desc2" /\ pg[j].op = "nsn" /\ j = i + 1
                  /\ pg[j].y < bottom_bound + row_height
                  /\ \A k \in 1..Len(pg) : pg[k].y >= pg[j].y

\* ------------------------------------------------------------------------
\* Properties of the parsers
\* ------------------------------------------------------------------------

\* the records the parsers have returned so far: the rows of parse_bom_pdf
\* before deduplication, the items of parse_items_from_rows
parsed_records == IF prog = "app" THEN item_rows ELSE st.items

\* the parser has returned and its list has been handed on
handed == pc \notin {"index", "extract", "parse", "pages"}

record_key(r) == <<upper(r.description), r.nsn>>

first_seen(k) == SetMin({c \in 1..Len(parsed_records) : record_key(parsed_records[c]) = k})

\* C1: every record returned by the parsers (the table path and the line
\* path of parse_bom_pdf, parse_items_from_rows) has quantity >= 1 and a
\* non-empty description.
C1_RecordsValid ==
    \A i \in 1..Len(parsed_records) :
        /\ parsed_records[i].qty >= 1
        /\ parsed_records[i].description # <<>>

\* C2: the list handed to the renderer holds at most one record per key
\* (description uppercased, stock number), that record is the parsed
\* candidate of maximum quantity with that key, and the records are in the
\* order their keys were first seen.
C2_Deduplicated ==
    handed =>
        /\ \A i, j \in 1..Len(items) :
              record_key(items[i]) = record_key(items[j]) => i = j
        /\ \A i \in 1..Len(items) :
              \E c \in 1..Len(parsed_records) : parsed_records[c] = items[i]
        /\ \A c \in 1..Len(parsed_records) :
              \E i \in 1..Len(items) :
                  /\ record_key(items[i]) = record_key(parsed_records[c])
                  /\ items[i].qty >= parsed_records[c].qty
        /\ \A i, j \in 1..Len(items) :
              i < j => first_seen(record_key(items[i])) < first_seen(record_key(items[j]))

\* C6: when the line after a description carries a trailing integer outside
\* 0..500, the record in progress is discarded: its description is in no
\* emitted item, whatever lines follow.
C6_RejectedDiscarded ==
    (prog = "core" /\ pc = "render") =>
        \A k \in 1..(Len(text_rows) - 1) :
            ( /\ text_rows[k] = L_DESC
              /\ text_rows[k + 1] = L_BADQTY
              /\ \A m \in 1..Len(text_rows) : text_rows[m] = L_DESC => m = k )
            => \A i \in 1..Len(items) : items[i].description # L_DESC

\* C7: when the parser recovers zero records, no overlay is rendered, nothing
\* is merged, no output document is written and the caller gets an error.
C7_EmptyNoOutput ==
    (handed /\ items = <<>>) =>
        /\ overlay = <<>>
        /\ pc # "merge"
        /\ output = <<>>
        /\ pc = "done" => error # ""

\* the page of the scenario of C9: a BOM page of three lines and no table
is_line_mode_page(pg) ==
    /\ page_tables(pg) = <<>>
    /\ pg.text = <<L_HEADER, L_DESC, L_DIGITS, L_QTY3>>

\* C9 as stated: "CABLE ASSEMBLY", "0123456789", "X U EA 9G 3" yield exactly
\* one record of description "CABLE ASSEMBLY", stock number "0123456789"
\* and quantity 3.
C9_StandaloneDigitsCaptured ==
    /\ (prog = "core" /\ pc = "render" /\ text_rows = <<L_DESC, L_DIGITS, L_QTY3>>)
          => items = << [description |-> L_DESC, nsn |-> L_DIGITS, qty |-> 3] >>
    /\ (prog = "app" /\ pc = "pages" /\ pno = start_page + 1 /\ is_line_mode_page(page))
          => item_rows = << [description |-> L_DESC, nsn |-> L_DIGITS, qty |-> 3] >>

\* C9, amended: parse_items_from_rows takes the stock number from a line that
\* starts with "NSN" only; the three lines yield one record of description
\* "CABLE ASSEMBLY", empty stock number and quantity 3, an "NSN: 5995-01"
\* line in place of the digits gives stock number "599501", and the line
\* fallback of parse_bom_pdf yields no record for the three lines.
C9_NsnLineOnly ==
    /\ (prog = "core" /\ pc = "render" /\ text_rows = <<L_DESC, L_DIGITS, L_QTY3>>)
          => items = << [description |-> L_DESC, nsn |-> <<>>, qty |-> 3] >>
    /\ (prog = "core" /\ pc = "render" /\ text_rows = <<L_DESC, L_NSN, L_QTY3>>)
          => items = << [description |-> L_DESC,
                         nsn |-> <<"5", "9", "9", "5", "0", "1">>, qty |-> 3] >>
    /\ (prog = "core" /\ pc = "render")
          => \A i \in 1..Len(items) :
                items[i].nsn # <<>>
                    => \E k \in 1..Len(text_rows) :
                          startswith(upper(text_rows[k]), <<"N", "S", "N">>)
    /\ (prog = "app" /\ pc = "pages" /\ pno = start_page + 1 /\ is_line_mode_page(page))
          => item_rows = <<>>

C9_Witness ==
    /\ prog = "core" /\ pc = "render"
    /\ text_rows = <<L_DESC, L_DIGITS, L_QTY3>>
    /\ Len(items) = 1

\* a page with a table the table path reads
has_usable_table(pg) ==
    \E t \in 1..Len(page_tables(pg)) : usable_table(page_tables(pg)[t])

\* C10: a page that has a usable table contributes the records of the table
\* path only; the line fallback runs on a page only when it has no usable
\* table or extract_tables() failed.
C10_TableOrFallback ==
    [][ (pc = "pages" /\ pno' = pno + 1 /\ pno >= start_page /\ has_usable_table(page'))
            => item_rows' = item_rows \o parse_tables(page_tables(page')) ]_vars

====
